---- MODULE Spec2Model ----
(***************************************************************************)
(* Product synchronisation of the medusa-store repository:                 *)
(*   jobs/daily-product-sync.ts   fetchWithRetry, mapToMedusaFormat,       *)
(*                                fetchAllProducts, dailyProductSync       *)
(*   workflows/batch-products.ts  the steps of batchProductsWorkflow       *)
(*   scripts/debug-link.ts        the CSV export route GET                 *)
(*   scripts/test-sync.ts         testSync, a manual run of the job        *)
(*   unnamed/part_001             the steps of syncProductsWorkflow        *)
(*                                                                         *)
(* The remote catalog, the product module, the brand module and the link   *)
(* service are the environment: a call to one of them either does what its *)
(* name says or throws.                                                    *)
(***************************************************************************)
EXTENDS Integers, Sequences, FiniteSets

(***************************************************************************)
(* Bounds of the model.                                                    *)
(***************************************************************************)
\* fetchWithRetry is explored for retries = 0 .. MaxRetries
MaxRetries == 3
\* the remote catalog holds a subset of the records 1 .. MaxRemote
MaxRemote == 3
\* fetchAllProducts is explored for limit = MinLimit .. MaxLimit (the job
\* passes 20): a page can hold several records and a catalog several pages
MinLimit == 2
MaxLimit == 3
\* number of runs of dailyProductSync, one after the other
MaxRuns == 2
\* the CSV export is explored over stores of 0 .. MaxStore products
MaxStore == 104

(***************************************************************************)
(* Program constants.                                                      *)
(***************************************************************************)
\* fetchWithRetry(url, retries = 2, backoff = 1000)
DefaultRetries == 2
DefaultBackoff == 1000
\* debug-link.ts lines 63, 59 and 60
BATCH_SIZE == 50
DefaultExportLimit == 100
DefaultExportOffset == 0

BackoffChoices == {DefaultBackoff, 250}

VARIABLES
    fwr,          \* the activation of fetchWithRetry
    catalog,      \* remote catalog: the ids of its records, in page order
    limit,        \* the page size given to fetchAllProducts
    gen,          \* the async generator fetchAllProducts
    requests,     \* the page requests issued by the generator in this run
    yielded,      \* the records yielded by the generator in this run
    pc,           \* position of dailyProductSync
    runs,         \* number of runs of dailyProductSync started
    batch,        \* the batch the loop body is working on
    existingProducts, \* result of the lookup of line 103
    createBatch,  \* line 109
    updateBatch,  \* line 110
    log,          \* kinds of messages logged by the current run
    wf,           \* the run of batchProductsWorkflow or syncProductsWorkflow
    brands,       \* rows of the brand module
    categories,   \* product category rows
    products,     \* product rows
    links,        \* product-brand links
    hist,         \* history of the current run (not program state)
    csv,          \* the activation of the CSV export route GET
    other         \* a second activation of dailyProductSync, while suspended

vars == <<fwr, catalog, limit, gen, requests, yielded, pc, runs, batch,
          existingProducts, createBatch, updateBatch, log, wf, brands,
          categories, products, links, hist, csv, other>>

syncVars == <<catalog, limit, gen, requests, yielded, pc, runs, batch,
              existingProducts, createBatch, updateBatch, log, wf, brands,
              categories, products, links, hist, csv, other>>

(***************************************************************************)
(* fetchWithRetry, daily-product-sync.ts lines 24-36                       *)
(***************************************************************************)
\* What one pass through the try block can do:
\*   "ok"      fetch resolves, res.ok, res.json() resolves: the body is returned
\*   "neterr"  fetch rejects
\*   "status"  res.ok is false, line 28 throws
\*   "badjson" res.ok is true, res.json() of line 29 rejects
Outcomes == {"ok", "neterr", "status", "badjson"}

NoErr == [kind |-> "none", at |-> -1]

RECURSIVE Pow2(_)
Pow2(n) == IF n = 0 THEN 1 ELSE 2 * Pow2(n - 1)

BackoffDelayLinear(backoff, i) == backoff * (i + 2)

\* line 32: backoff * Math.pow(2, i)
BackoffDelay(backoff, i) == backoff * Pow2(i)

IsLastAttemptOffByOne(i, retries) == i = retries

\* line 31: the catch block rethrows when this was the last allowed attempt
IsLastAttempt(i, retries) == i = retries - 1

IdleFwr == [st |-> "idle", i |-> 0, retries |-> 0, backoff |-> 0,
            att |-> <<>>, waits |-> <<>>, body |-> -1, err |-> NoErr]

\* the call fetchWithRetry(url, retries, backoff): i = 0, about to test i < retries
CallFwr(retries, backoff) ==
    [IdleFwr EXCEPT !.st = "try", !.retries = retries, !.backoff = backoff]

\* lines 25-33: one iteration of the loop up to its return, throw or setTimeout
FwrAttempt ==
    /\ fwr.st = "try"
    /\ fwr.i < fwr.retries
    /\ \E o \in Outcomes :
          LET f == [fwr EXCEPT !.att = Append(@, o)] IN
          fwr' = IF o = "ok"
                    THEN [f EXCEPT !.st = "ret", !.body = fwr.i]
                 ELSE IF IsLastAttempt(fwr.i, fwr.retries)
                    THEN [f EXCEPT !.st = "thrown",
                                   !.err = [kind |-> o, at |-> fwr.i]]
                 ELSE [f EXCEPT !.st = "wait",
                                !.waits = Append(@, BackoffDelay(fwr.backoff, fwr.i))]
    /\ UNCHANGED syncVars

\* line 32 resolves, then i++ of line 25
FwrBackoffElapsed ==
    /\ fwr.st = "wait"
    /\ fwr' = [fwr EXCEPT !.st = "try", !.i = @ + 1]
    /\ UNCHANGED syncVars

\* line 35: the loop ended without return or throw
FwrUnreachable ==
    /\ fwr.st = "try"
    /\ fwr.i >= fwr.retries
    /\ fwr' = [fwr EXCEPT !.st = "thrown",
                          !.err = [kind |-> "unreachable", at |-> fwr.i]]
    /\ UNCHANGED syncVars

(***************************************************************************)
(* JavaScript values                                                       *)
(***************************************************************************)
\* Row ids are positive; 0 stands for undefined and -1 for a function value
\* inherited from Object.prototype.
Undefined == 0
InheritedFn == -1

\* Names that every object literal {} answers through its prototype.
ObjectPrototypeKeys == {"constructor", "toString", "valueOf", "hasOwnProperty"}

\* obj[key] for an object literal whose own properties are the function obj
JsGet(obj, key) ==
    IF key \in DOMAIN obj THEN obj[key]
    ELSE IF key \in ObjectPrototypeKeys THEN InheritedFn
    ELSE Undefined

\* truthiness of a map entry (an id, a function or undefined) and of a string
Truthy(v) == v # Undefined
TruthyStr(s) == s # ""

EmptyMap == [k \in {} |-> Undefined]

Range(s) == {s[k] : k \in DOMAIN s}

RECURSIVE Filter(_, _)
Filter(s, keep) ==
    IF s = <<>> THEN <<>>
    ELSE IF Head(s) \in keep THEN <<Head(s)>> \o Filter(Tail(s), keep)
    ELSE Filter(Tail(s), keep)

\* Array.from(new Set(s)): first occurrences, in order
RECURSIVE Unique(_)
Unique(s) ==
    IF s = <<>> THEN <<>>
    ELSE <<Head(s)>> \o Unique(Filter(Tail(s), Range(s) \ {Head(s)}))

\* Number.prototype.toString for a non-negative integer, as its digits
Digits == <<"0", "1", "2", "3", "4", "5", "6", "7", "8", "9">>
RECURSIVE NumToString(_)
NumToString(n) ==
    IF n < 10 THEN <<Digits[n + 1]>>
    ELSE NumToString(n \div 10) \o <<Digits[(n % 10) + 1]>>

\* The characters of the category names of the model.
Chars(s) ==
    CASE s = "A b"  -> <<"A", " ", "b">>
      [] s = "a--b" -> <<"a", "-", "-", "b">>
      [] s = "b"    -> <<"b">>
      [] OTHER      -> <<>>

\* String.prototype.toLowerCase on one character
LowerChar(c) ==
    CASE c = "A" -> "a"
      [] c = "B" -> "b"
      [] OTHER   -> c

ToLowerCase(s) == [k \in DOMAIN s |-> LowerChar(s[k])]

IsAlnumLower(c) == c \in {"a", "b"} \cup Range(Digits)

RECURSIVE DropNonAlnum(_)
DropNonAlnum(s) ==
    IF s = <<>> \/ IsAlnumLower(Head(s)) THEN s ELSE DropNonAlnum(Tail(s))

\* s.replace(/[^a-z0-9]+/g, "-")
RECURSIVE ReplaceNonAlnumRuns(_)
ReplaceNonAlnumRuns(s) ==
    IF s = <<>> THEN <<>>
    ELSE IF IsAlnumLower(Head(s)) THEN <<Head(s)>> \o ReplaceNonAlnumRuns(Tail(s))
    ELSE <<"-">> \o ReplaceNonAlnumRuns(DropNonAlnum(Tail(s)))

\* batch-products.ts line 81
nameToHandle(name) == ReplaceNonAlnumRuns(ToLowerCase(Chars(name)))

\* ProductStatus[status.toUpperCase()] || ProductStatus.DRAFT, lines 145 and 174
ToUpperStatus(s) ==
    CASE s \in {"draft", "DRAFT", "Draft"}             -> "DRAFT"
      [] s \in {"published", "PUBLISHED", "Published"} -> "PUBLISHED"
      [] s \in {"proposed", "PROPOSED"}                -> "PROPOSED"
      [] s \in {"rejected", "REJECTED"}                -> "REJECTED"
      [] s = "archived"                                -> "ARCHIVED"
      [] s = "constructor"                             -> "CONSTRUCTOR"
      [] OTHER                                         -> s
ProductStatus ==
    [k \in {"DRAFT", "PROPOSED", "PUBLISHED", "REJECTED"} |->
        CASE k = "DRAFT" -> "draft" [] k = "PROPOSED" -> "proposed"
          [] k = "PUBLISHED" -> "published" [] OTHER -> "rejected"]
\* the enumeration is an object: a key it does not own is looked up in
\* Object.prototype, and a function found there is truthy
MapStatus(status) ==
    LET key == ToUpperStatus(status)
    IN IF key \in DOMAIN ProductStatus THEN ProductStatus[key]
       ELSE IF key \in ObjectPrototypeKeys THEN "[function]"
       ELSE ProductStatus["DRAFT"]

(***************************************************************************)
(* The remote catalog                                                      *)
(***************************************************************************)
\* The brand of a remote record.  The remote renames the brand of record 2
\* between runs: it is "Apple" during odd runs and "Pear" during even runs.
BrandOf(i) ==
    CASE i % 4 = 1 -> "Apple"
      [] i % 4 = 2 -> IF runs % 2 = 1 THEN "Apple" ELSE "Pear"
      [] i % 4 = 3 -> "constructor"
      [] OTHER     -> ""

CategoryOf(i) ==
    CASE i % 4 = 1 -> "A b"
      [] i % 4 = 2 -> "a--b"
      [] i % 4 = 3 -> ""
      [] OTHER     -> "b"

\* the DummyProduct with id i
RemoteRecord(i) == [id |-> i, brand |-> BrandOf(i), category |-> CategoryOf(i)]

RECURSIVE Ascending(_)
Ascending(S) ==
    IF S = {} THEN <<>>
    ELSE LET m == CHOOSE x \in S : \A y \in S : x <= y
         IN <<m>> \o Ascending(S \ {m})

\* a catalog lists distinct records, by ascending id: the records a .. b
Catalogs == {Ascending(a .. b) : a \in 1 .. MaxRemote + 1, b \in 0 .. MaxRemote}

Min(a, b) == IF a <= b THEN a ELSE b

\* the response to GET /products?limit=lim&skip=skip
RemotePage(cat, lim, skip) ==
    [products |-> [k \in 1 .. (Min(skip + lim, Len(cat)) - Min(skip, Len(cat))) |->
                      RemoteRecord(cat[skip + k])],
     total |-> Len(cat)]

(***************************************************************************)
(* dailyProductSync: normalisation and the create/update split             *)
(***************************************************************************)
\* daily-product-sync.ts lines 39-66; the fields no step reads are left out
mapToMedusaFormat(product) ==
    [status       |-> "draft",
     external_id  |-> NumToString(product.id),
     brandName    |-> product.brand,
     categoryName |-> product.category]

\* line 100
ExternalIds(b) == [k \in DOMAIN b |-> NumToString(b[k].id)]

ListProductsNothing(prods, externalIds) == {}

\* productService.listProducts({ metadata: { external_id: externalIds } }), line 103
ListProducts(prods, externalIds) ==
    {p \in prods : p.external_id \in Range(externalIds)}

\* existingMap.has(externalId), lines 107 and 115
HasExisting(existing, externalId) ==
    \E p \in existing : p.external_id = externalId

GetExistingAny(existing, externalId) == CHOOSE p \in existing : TRUE

\* existingMap.get(externalId)
GetExisting(existing, externalId) ==
    CHOOSE p \in existing : p.external_id = externalId

\* { id: existing.id, ...medusaProduct }, lines 118-121
WithId(id, m) ==
    [id |-> id, status |-> m.status, external_id |-> m.external_id,
     brandName |-> m.brandName, categoryName |-> m.categoryName]

SplitBatchAllCreate(b, existing) ==
    [create |-> [k \in DOMAIN b |-> mapToMedusaFormat(b[k])], update |-> <<>>]

\* lines 109-125
SplitBatch(b, existing) ==
    LET isNew(p) == ~HasExisting(existing, NumToString(p.id))
        isOld(p) == HasExisting(existing, NumToString(p.id))
        cs == SelectSeq(b, isNew)
        us == SelectSeq(b, isOld)
    IN [create |-> [k \in DOMAIN cs |-> mapToMedusaFormat(cs[k])],
        update |-> [k \in DOMAIN us |->
                       WithId(GetExisting(existing, NumToString(us[k].id)).id,
                              mapToMedusaFormat(us[k]))]]

(***************************************************************************)
(* fetchAllProducts, daily-product-sync.ts lines 69-87                     *)
(***************************************************************************)
NewGen == [st |-> "start", skip |-> 0, hasMore |-> TRUE, total |-> 0, value |-> <<>>]
NoGen  == [NewGen EXCEPT !.st = "none"]

GenMayResumeEager == TRUE

\* The body of an async generator runs only while the consumer awaits next().
GenMayResume == pc = "next"

NextSkipDouble(skip, lim) == skip + 2 * lim

\* line 84
NextSkip(skip, lim) == skip + lim

\* lines 70-75 on the first next(), lines 84-85 and 73-75 on a later one: the
\* generator runs up to the fetch of the next page, or returns
GenResume ==
    /\ GenMayResume
    /\ gen.st \in {"start", "suspended"}
    /\ LET skip    == IF gen.st = "start" THEN 0 ELSE NextSkip(gen.skip, limit)
           hasMore == IF gen.st = "start" THEN TRUE ELSE ~(skip >= gen.total)
       IN IF hasMore
          THEN /\ gen' = [gen EXCEPT !.st = "fetching", !.skip = skip]
               /\ requests' = Append(requests, [limit |-> limit, skip |-> skip])
               /\ fwr' = CallFwr(DefaultRetries, DefaultBackoff)
          ELSE /\ gen' = [gen EXCEPT !.st = "done", !.skip = skip, !.hasMore = FALSE]
               /\ UNCHANGED <<requests, fwr>>
    /\ UNCHANGED <<catalog, limit, yielded, pc, runs, batch, existingProducts,
                   createBatch, updateBatch, log, wf, brands, categories,
                   products, links, hist>>
    /\ UNCHANGED <<csv, other>>

\* lines 75-82: fetchWithRetry has settled; the generator throws, returns on an
\* empty page, or yields the page
GenReceive ==
    /\ gen.st = "fetching"
    /\ fwr.st \in {"ret", "thrown"}
    /\ fwr' = IdleFwr
    /\ IF fwr.st = "thrown"
       THEN /\ gen' = [gen EXCEPT !.st = "thrown"]
            /\ UNCHANGED yielded
       ELSE LET data == RemotePage(catalog, limit, gen.skip) IN
            IF Len(data.products) = 0
            THEN /\ gen' = [gen EXCEPT !.st = "done", !.hasMore = FALSE]
                 /\ UNCHANGED yielded
            ELSE /\ gen' = [gen EXCEPT !.st = "yielded", !.value = data.products,
                                       !.total = data.total]
                 /\ yielded' = yielded \o [k \in DOMAIN data.products |->
                                              data.products[k].id]
    /\ UNCHANGED <<catalog, limit, requests, pc, runs, batch, existingProducts,
                   createBatch, updateBatch, log, wf, brands, categories,
                   products, links, hist>>
    /\ UNCHANGED <<csv, other>>

(***************************************************************************)
(* batchProductsWorkflow, workflows/batch-products.ts                      *)
(*                                                                         *)
(* wf.st names the step that runs next ("brands", "categories", "create",  *)
(* "update", "link"), the compensation that runs next ("c_update",         *)
(* "c_create", "c_categories", "c_brands"), or the end of the run ("done", *)
(* "failed").  A step that throws is compensated first, with no            *)
(* compensation data, then the steps before it in reverse order.           *)
(***************************************************************************)
NoWf == [st |-> "idle", create |-> <<>>, update |-> <<>>,
         brandMap |-> EmptyMap, brandIds |-> {},
         categoryMap |-> EmptyMap, categoryIds |-> {},
         createdProducts |-> <<>>, productIds |-> {},
         updatedProducts |-> <<>>, links |-> <<>>]

\* batchProductsWorkflow(container).run({ input: { create, update } }), line 128
NewWf(create, update) == [NoWf EXCEPT !.st = "brands", !.create = create,
                                      !.update = update]

fetchSide == <<fwr, catalog, limit, gen, requests, yielded>>
jobSide   == <<pc, runs, batch, existingProducts, createBatch, updateBatch, log>>

\* lines 277-288: the truthy brandName (categoryName) of create, then of update
ExtractBrands(w) ==
    LET all == [k \in DOMAIN w.create |-> w.create[k].brandName]
               \o [k \in DOMAIN w.update |-> w.update[k].brandName]
    IN SelectSeq(all, TruthyStr)

ExtractCategories(w) ==
    LET all == [k \in DOMAIN w.create |-> w.create[k].categoryName]
               \o [k \in DOMAIN w.update |-> w.update[k].categoryName]
    IN SelectSeq(all, TruthyStr)

\* Row ids are opaque to the program.  The store of the model names a new row
\* after its table, its key (brand name, category handle, external id) and the
\* number of rows of that key, so that stores with the same rows are one state.
KeySlots == 10
BrandTable == 1
CategoryTable == 2
ProductTable == 3

IndexIn(known, x) ==
    IF \E k \in DOMAIN known : known[k] = x
    THEN CHOOSE k \in DOMAIN known : known[k] = x
    ELSE Len(known) + 1

BrandKey(name) == IndexIn(<<"Apple", "constructor", "Pear">>, name)
CategoryKey(handle) == IndexIn(<<nameToHandle("A b"), nameToHandle("b")>>, handle)
ProductKey(externalId) ==
    IndexIn([i \in 1 .. (MaxRemote + 1) |-> NumToString(i)], externalId)

\* the ids of the rows that a create call adds to the table rows, one for each
\* key of keys
NewIds(table, keys, rows) ==
    [k \in DOMAIN keys |->
        (table * 100 + keys[k]) * KeySlots + 1
        + Cardinality({r \in rows : r.id \div KeySlots = table * 100 + keys[k]})
        + Cardinality({j \in 1 .. (k - 1) : keys[j] = keys[k]})]

\* ---- Step 1, manageBrandsStep, lines 34-67 ----

\* brandModule.listBrands({ name: uniqueNames }), line 44
ListBrands(uniqueNames) == {b \in brands : b.name \in Range(uniqueNames)}

\* lines 48-49
BrandMapOf(rows) ==
    [n \in {b.name : b \in rows} |-> (CHOOSE b \in rows : b.name = n).id]

\* line 51
BrandsToCreate(uniqueNames, brandMap) ==
    LET missing(n) == ~Truthy(JsGet(brandMap, n))
    IN SelectSeq(uniqueNames, missing)

ManageBrands ==
    /\ pc = "workflow"
    /\ wf.st = "brands"
    /\ LET brandNames == ExtractBrands(wf)
           uniqueNames == Unique(brandNames)
           existingBrands == ListBrands(uniqueNames)
           brandMap == BrandMapOf(existingBrands)
           toCreate == BrandsToCreate(uniqueNames, brandMap)
           ids == NewIds(BrandTable, [k \in DOMAIN toCreate |-> BrandKey(toCreate[k])],
                         brands)
           created == {[id |-> ids[k], name |-> toCreate[k]] : k \in DOMAIN toCreate}
       IN IF Len(brandNames) = 0
          THEN \* lines 39-41
               /\ wf' = [wf EXCEPT !.st = "categories"]
               /\ UNCHANGED <<brands, hist>>
          ELSE \/ \* listBrands throws
                  /\ wf' = [wf EXCEPT !.st = "c_brands"]
                  /\ UNCHANGED <<brands, hist>>
               \/ \* nothing to create
                  /\ Len(toCreate) = 0
                  /\ wf' = [wf EXCEPT !.st = "categories", !.brandMap = brandMap]
                  /\ UNCHANGED <<brands, hist>>
               \/ \* createBrands throws
                  /\ Len(toCreate) > 0
                  /\ wf' = [wf EXCEPT !.st = "c_brands"]
                  /\ UNCHANGED <<brands, hist>>
               \/ \* lines 55-57
                  /\ Len(toCreate) > 0
                  /\ brands' = brands \cup created
                  /\ hist' = [hist EXCEPT !.made = @ \cup Range(ids)]
                  /\ wf' = [wf EXCEPT !.st = "categories",
                               !.brandMap = BrandMapOf(existingBrands \cup created),
                               !.brandIds = Range(ids)]
    /\ UNCHANGED <<categories, products, links>>
    /\ UNCHANGED fetchSide
    /\ UNCHANGED jobSide
    /\ UNCHANGED <<csv, other>>

CompensateBrandsKeep(ids) == brands

\* lines 62-66: brandModule.deleteBrands(createdIds)
CompensateBrandsRows(ids) == {b \in brands : b.id \notin ids}

CompensateBrands ==
    /\ pc = "workflow"
    /\ wf.st = "c_brands"
    /\ brands' = CompensateBrandsRows(wf.brandIds)
    /\ wf' = [wf EXCEPT !.st = "failed"]
    /\ UNCHANGED <<categories, products, links, hist>>
    /\ UNCHANGED fetchSide
    /\ UNCHANGED jobSide
    /\ UNCHANGED <<csv, other>>

\* ---- Step 1.5, manageCategoriesStep, lines 70-132 ----

\* line 82
Handles(uniqueNames) == [k \in DOMAIN uniqueNames |-> nameToHandle(uniqueNames[k])]

\* productService.listProductCategories({ handle: handles }), lines 84 and 114
ListProductCategories(handles) == {c \in categories : c.handle \in Range(handles)}

\* lines 93-100, the names resolved from handleMap
ResolvedCategories(uniqueNames, existing) ==
    LET known == {n \in Range(uniqueNames) :
                     \E c \in existing : c.handle = nameToHandle(n)}
    IN [n \in known |-> (CHOOSE c \in existing : c.handle = nameToHandle(n)).id]

\* lines 93-100, the entries pushed to toCreate
CategoriesToCreate(uniqueNames, existing) ==
    LET unknown(n) == ~\E c \in existing : c.handle = nameToHandle(n)
        names == SelectSeq(uniqueNames, unknown)
    IN [k \in DOMAIN names |-> [name |-> names[k], handle |-> nameToHandle(names[k])]]

\* uniqueNames.find(u => nameToHandle(u) === handle), lines 107 and 119;
\* "" stands for undefined
FindOriginal(uniqueNames, handle) ==
    LET same(u) == nameToHandle(u) = handle
        m == SelectSeq(uniqueNames, same)
    IN IF m = <<>> THEN "" ELSE Head(m)

\* lines 106-109 and 117-121: rows.forEach(c => categoryMap[original] = c.id)
FillCategoryMap(map, rows, uniqueNames) ==
    LET keys == {FindOriginal(uniqueNames, c.handle) : c \in rows} \ {""}
    IN [n \in DOMAIN map \cup keys |->
          IF n \in keys
          THEN (CHOOSE c \in rows : FindOriginal(uniqueNames, c.handle) = n).id
          ELSE map[n]]

\* The store keeps category handles unique (the constraint of line 112):
\* a create call whose handles repeat or already exist is rejected.
CategoryCreateAllowed(toCreate) ==
    /\ \A j, k \in DOMAIN toCreate : toCreate[j].handle = toCreate[k].handle => j = k
    /\ \A k \in DOMAIN toCreate : \A c \in categories : c.handle # toCreate[k].handle

ManageCategories ==
    /\ pc = "workflow"
    /\ wf.st = "categories"
    /\ LET categoryNames == ExtractCategories(wf)
           uniqueNames == Unique(categoryNames)
           handles == Handles(uniqueNames)
           existingCategories == ListProductCategories(handles)
           categoryMap == ResolvedCategories(uniqueNames, existingCategories)
           toCreate == CategoriesToCreate(uniqueNames, existingCategories)
           ids == NewIds(CategoryTable,
                         [k \in DOMAIN toCreate |-> CategoryKey(toCreate[k].handle)],
                         categories)
           created == {[id |-> ids[k], name |-> toCreate[k].name,
                        handle |-> toCreate[k].handle] : k \in DOMAIN toCreate}
           called == [hist EXCEPT !.catCreate = toCreate,
                                  !.catCreateSeen = {c.handle : c \in categories}]
       IN IF Len(categoryNames) = 0
          THEN \* lines 75-77
               /\ wf' = [wf EXCEPT !.st = "create"]
               /\ UNCHANGED <<categories, hist>>
          ELSE \/ \* listProductCategories of line 84 throws
                  /\ wf' = [wf EXCEPT !.st = "c_categories"]
                  /\ UNCHANGED <<categories, hist>>
               \/ \* nothing to create
                  /\ Len(toCreate) = 0
                  /\ wf' = [wf EXCEPT !.st = "create", !.categoryMap = categoryMap]
                  /\ UNCHANGED <<categories, hist>>
               \/ \* lines 105-110
                  /\ Len(toCreate) > 0
                  /\ CategoryCreateAllowed(toCreate)
                  /\ categories' = categories \cup created
                  /\ hist' = [called EXCEPT !.made = @ \cup Range(ids)]
                  /\ wf' = [wf EXCEPT !.st = "create",
                               !.categoryMap = FillCategoryMap(categoryMap, created,
                                                               uniqueNames),
                               !.categoryIds = Range(ids)]
               \/ \* createProductCategories throws, lines 111-121
                  /\ Len(toCreate) > 0
                  /\ hist' = called
                  /\ UNCHANGED categories
                  /\ \/ wf' = [wf EXCEPT !.st = "create",
                                  !.categoryMap = FillCategoryMap(categoryMap,
                                        ListProductCategories(handles), uniqueNames)]
                     \/ \* the listProductCategories of line 114 throws as well
                        wf' = [wf EXCEPT !.st = "c_categories"]
    /\ UNCHANGED <<brands, products, links>>
    /\ UNCHANGED fetchSide
    /\ UNCHANGED jobSide
    /\ UNCHANGED <<csv, other>>

\* lines 127-131: productService.deleteProductCategories(createdIds)
CompensateCategoriesRows(ids) == {c \in categories : c.id \notin ids}

\* a product loses the categories that are deleted
WithoutCategories(p, ids) ==
    [p EXCEPT !.category_ids = SelectSeq(@, LAMBDA c : c \notin ids)]

CompensateCategories ==
    /\ pc = "workflow"
    /\ wf.st = "c_categories"
    /\ categories' = CompensateCategoriesRows(wf.categoryIds)
    /\ products' = {WithoutCategories(p, {c.id : c \in categories \ categories'}) :
                       p \in products}
    /\ wf' = [wf EXCEPT !.st = "c_brands"]
    /\ UNCHANGED <<brands, links, hist>>
    /\ UNCHANGED fetchSide
    /\ UNCHANGED jobSide
    /\ UNCHANGED <<csv, other>>

\* ---- Step 2, createProductsStep, lines 135-158 ----

\* lines 146 and 176-177
CategoryIdsFor(categoryName, categoryMap) ==
    IF TruthyStr(categoryName) /\ Truthy(JsGet(categoryMap, categoryName))
    THEN <<JsGet(categoryMap, categoryName)>> ELSE <<>>

\* lines 143-147
CreateDto(p, categoryMap) ==
    [external_id  |-> p.external_id,
     status       |-> MapStatus(p.status),
     category_ids |-> CategoryIdsFor(p.categoryName, categoryMap)]

ProductRow(id, dto) ==
    [id |-> id, external_id |-> dto.external_id, status |-> dto.status,
     category_ids |-> dto.category_ids]

CreateProducts ==
    /\ pc = "workflow"
    /\ wf.st = "create"
    /\ LET ids == NewIds(ProductTable,
                         [k \in DOMAIN wf.create |-> ProductKey(wf.create[k].external_id)],
                         products)
           created == [k \in DOMAIN wf.create |->
                          ProductRow(ids[k], CreateDto(wf.create[k], wf.categoryMap))]
       IN IF Len(wf.create) = 0
          THEN \* line 139
               /\ wf' = [wf EXCEPT !.st = "update"]
               /\ UNCHANGED <<products, hist>>
          ELSE \/ \* productService.createProducts throws
                  /\ wf' = [wf EXCEPT !.st = "c_create"]
                  /\ UNCHANGED <<products, hist>>
               \/ \* lines 149-151
                  /\ products' = products \cup Range(created)
                  /\ hist' = [hist EXCEPT !.made = @ \cup Range(ids),
                                          !.createdAny = TRUE]
                  /\ wf' = [wf EXCEPT !.st = "update", !.createdProducts = created,
                               !.productIds = Range(ids)]
    /\ UNCHANGED <<brands, categories, links>>
    /\ UNCHANGED fetchSide
    /\ UNCHANGED jobSide
    /\ UNCHANGED <<csv, other>>

\* lines 153-157: productService.deleteProducts(ids)
CompensateCreateRows(ids) == {p \in products : p.id \notin ids}

CompensateCreate ==
    /\ pc = "workflow"
    /\ wf.st = "c_create"
    /\ products' = CompensateCreateRows(wf.productIds)
    /\ wf' = [wf EXCEPT !.st = "c_categories"]
    /\ UNCHANGED <<brands, categories, links, hist>>
    /\ UNCHANGED fetchSide
    /\ UNCHANGED jobSide
    /\ UNCHANGED <<csv, other>>

\* ---- Step 3, updateProductsStep, lines 161-188 ----

UpdatedRowKeepStatus(p, u, categoryMap) ==
    [id           |-> p.id,
     external_id  |-> u.external_id,
     status       |-> p.status,
     category_ids |-> p.category_ids]

\* lines 170-180: productService.updateProducts(id, updateData) applied to row p
UpdatedRow(p, u, categoryMap) ==
    [id           |-> p.id,
     external_id  |-> u.external_id,
     status       |-> IF TruthyStr(u.status) THEN MapStatus(u.status) ELSE p.status,
     category_ids |-> IF CategoryIdsFor(u.categoryName, categoryMap) # <<>>
                      THEN CategoryIdsFor(u.categoryName, categoryMap)
                      ELSE p.category_ids]

\* the orders in which the calls of the set S of a Promise.all can complete
RECURSIVE Orders(_)
Orders(S) ==
    IF S = {} THEN {<<>>}
    ELSE UNION {{<<x>> \o o : o \in Orders(S \ {x})} : x \in S}

\* the table rows after the calls updateProducts(updates[k].id, ...) of line 180
\* have completed one after the other, for k in the order given
RECURSIVE ApplyInOrder(_, _, _, _)
ApplyInOrder(rows, updates, order, categoryMap) ==
    IF order = <<>> THEN rows
    ELSE LET u == updates[Head(order)]
         IN ApplyInOrder({IF p.id = u.id THEN UpdatedRow(p, u, categoryMap) ELSE p :
                             p \in rows},
                         updates, Tail(order), categoryMap)

UpdateProducts ==
    /\ pc = "workflow"
    /\ wf.st = "update"
    /\ IF Len(wf.update) = 0
       THEN \* line 165
            /\ wf' = [wf EXCEPT !.st = "link"]
            /\ UNCHANGED <<products, hist>>
       ELSE \* line 169: every call of the Promise.all settles on its own, the
            \* calls that succeed (ok) complete in some order
            \E ok \in SUBSET DOMAIN wf.update : \E order \in Orders(ok) :
               /\ products' = ApplyInOrder(products, wf.update, order, wf.categoryMap)
               /\ hist' = [hist EXCEPT !.updated =
                              {p \in products' : \E k \in ok : wf.update[k].id = p.id}]
               /\ IF ok = DOMAIN wf.update
                  THEN wf' = [wf EXCEPT !.st = "link",
                                 !.updatedProducts =
                                    [k \in DOMAIN wf.update |->
                                       CHOOSE p \in products' : p.id = wf.update[k].id]]
                  ELSE wf' = [wf EXCEPT !.st = "c_update"]
    /\ UNCHANGED <<brands, categories, links>>
    /\ UNCHANGED fetchSide
    /\ UNCHANGED jobSide
    /\ UNCHANGED <<csv, other>>

CompensateUpdateDelete(rows) ==
    {p \in rows : \A k \in DOMAIN wf.update : wf.update[k].id # p.id}

\* lines 185-187: the compensation is empty, the product rows stay as they are
CompensateUpdateRows(rows) == rows

CompensateUpdate ==
    /\ pc = "workflow"
    /\ wf.st = "c_update"
    /\ products' = CompensateUpdateRows(products)
    /\ wf' = [wf EXCEPT !.st = "c_create"]
    /\ UNCHANGED <<brands, categories, links, hist>>
    /\ UNCHANGED fetchSide
    /\ UNCHANGED jobSide
    /\ UNCHANGED <<csv, other>>

\* ---- Step 4, linkProductBrandsStep, lines 191-271 ----

\* lines 211-218; Undefined stands for null
getBrandId(inputItems, p, brandMap) ==
    LET same(i) == i.external_id = p.external_id
        m == SelectSeq(inputItems, same)
    IN IF m # <<>> /\ TruthyStr(Head(m).brandName)
       THEN JsGet(brandMap, Head(m).brandName) ELSE Undefined

\* lines 221-240
LinksFor(items, inputItems, brandMap) ==
    LET linked(p) == Truthy(getBrandId(inputItems, p, brandMap))
        ps == SelectSeq(items, linked)
    IN [k \in DOMAIN ps |-> [product_id |-> ps[k].id,
                             brand_id |-> getBrandId(inputItems, ps[k], brandMap)]]

\* JSON.parse(JSON.stringify(l)), line 243: a function-valued property is dropped
JsonRoundTrip(l) ==
    [l EXCEPT !.brand_id = IF @ = InheritedFn THEN Undefined ELSE @]

\* line 243
UniqueLinks(ls) == Unique([k \in DOMAIN ls |-> JsonRoundTrip(ls[k])])

\* the links of a call that the link service can store
WellFormed(ls) == {l \in Range(ls) : l.brand_id # Undefined}

CreateAttemptedAfterDismiss(dismissed) == dismissed

\* lines 246-253: the catch of dismiss is empty, so create is called whether
\* dismiss threw or not
CreateAttempted(dismissed) == TRUE

LinkProductBrands ==
    /\ pc = "workflow"
    /\ wf.st = "link"
    /\ LET ls == LinksFor(wf.createdProducts, wf.create, wf.brandMap)
                 \o LinksFor(wf.updatedProducts, wf.update, wf.brandMap)
           uniqueLinks == UniqueLinks(ls)
       IN /\ wf' = [wf EXCEPT !.st = "done", !.links = ls]
          /\ IF Len(uniqueLinks) = 0
             THEN /\ hist' = [hist EXCEPT !.linkCalls.ran = TRUE]
                  /\ UNCHANGED <<links, log>>
             ELSE \E dismissed, created \in BOOLEAN :
                     \* lines 246-256: a throw of dismiss is ignored, a throw of
                     \* create is logged as a warning
                     LET attempted == CreateAttempted(dismissed) IN
                     /\ attempted \/ ~created
                     /\ log' = IF attempted /\ ~created
                               THEN log \cup {"link-warning"} ELSE log
                     /\ links' = ((IF dismissed THEN links \ WellFormed(uniqueLinks)
                                                ELSE links)
                                  \cup (IF created THEN WellFormed(uniqueLinks) ELSE {}))
                     /\ hist' = [hist EXCEPT !.linkCalls =
                                    [dismiss |-> uniqueLinks,
                                     create |-> IF attempted THEN uniqueLinks ELSE <<>>,
                                     dismissed |-> dismissed, created |-> created,
                                     ran |-> TRUE]]
    /\ UNCHANGED <<brands, categories, products>>
    /\ UNCHANGED fetchSide
    /\ UNCHANGED <<pc, runs, batch, existingProducts, createBatch, updateBatch>>
    /\ UNCHANGED <<csv, other>>

(***************************************************************************)
(* dailyProductSync, daily-product-sync.ts lines 90-147                    *)
(***************************************************************************)
NoHist == [made |-> {}, pre |-> {}, createdAny |-> FALSE, allExisted |-> FALSE,
           catCreate |-> <<>>, catCreateSeen |-> {},
           updated |-> {},
           linkCalls |-> [dismiss |-> <<>>, create |-> <<>>,
                          dismissed |-> FALSE, created |-> FALSE, ran |-> FALSE]]

RowIds == {r.id : r \in brands \cup categories \cup products}

CaughtEscapes(l) == [pc |-> "thrown", log |-> l]

\* lines 96 and 144-146: an error raised inside the try block is caught and
\* logged, and dailyProductSync returns
Caught(l) == [pc |-> "critical", log |-> l \cup {"critical"}]

\* lines 91-97: a run starts; one run at a time.  The remote catalog may have
\* changed since the last run; it stays as it is during a run.
StartRun ==
    /\ pc \in {"idle", "completed", "critical"}
    /\ runs < MaxRuns
    /\ catalog' \in Catalogs
    /\ runs' = runs + 1
    /\ pc' = "next"
    /\ log' = {"starting"}
    /\ gen' = NewGen
    /\ requests' = <<>>
    /\ yielded' = <<>>
    /\ batch' = <<>>
    /\ existingProducts' = {}
    /\ createBatch' = <<>>
    /\ updateBatch' = <<>>
    /\ wf' = NoWf
    /\ hist' = [NoHist EXCEPT !.allExisted =
                   \A i \in Range(catalog') :
                      \E p \in products : p.external_id = NumToString(i)]
    /\ UNCHANGED <<fwr, limit, brands, categories, products, links>>
    /\ UNCHANGED <<csv, other>>

\* Between two runs the merchant may publish the product of the first remote
\* record in the admin; the sync job then finds it published (line 103).
AdminPublish ==
    /\ pc \in {"completed", "critical"}
    /\ runs < MaxRuns
    /\ \E p \in products :
          /\ p.external_id = NumToString(1)
          /\ p.status = ProductStatus["DRAFT"]
          /\ products' = (products \ {p}) \cup {[p EXCEPT !.status = ProductStatus["PUBLISHED"]]}
    /\ UNCHANGED <<fwr, catalog, limit, gen, requests, yielded, pc, runs, batch,
                   existingProducts, createBatch, updateBatch, log, wf, brands,
                   categories, links, hist, csv, other>>

\* lines 97-98: next() resolved with a page
TakeBatch ==
    /\ pc = "next"
    /\ gen.st = "yielded"
    /\ batch' = gen.value
    /\ gen' = [gen EXCEPT !.st = "suspended"]
    /\ pc' = "lookup"
    /\ log' = log \cup {"processing"}
    /\ UNCHANGED <<fwr, catalog, limit, requests, yielded, runs, existingProducts,
                   createBatch, updateBatch, wf, brands, categories, products,
                   links, hist>>
    /\ UNCHANGED <<csv, other>>

\* lines 100-134: the lookup of the existing products, the split and the start
\* of the workflow; a throw of listProducts reaches the catch of line 144
LookupExisting ==
    /\ pc = "lookup"
    /\ \/ /\ pc' = Caught(log).pc
          /\ log' = Caught(log).log
          /\ gen' = [gen EXCEPT !.st = "closed"]
          /\ UNCHANGED <<existingProducts, createBatch, updateBatch, wf, hist>>
       \/ LET existing == ListProducts(products, ExternalIds(batch))
              split == SplitBatch(batch, existing)
          IN /\ existingProducts' = existing
             /\ createBatch' = split.create
             /\ updateBatch' = split.update
             /\ IF Len(split.create) > 0 \/ Len(split.update) > 0
                THEN /\ pc' = "workflow"
                     /\ wf' = NewWf(split.create, split.update)
                     /\ hist' = [hist EXCEPT !.pre = RowIds, !.made = {}]
                ELSE /\ pc' = "next"
                     /\ UNCHANGED <<wf, hist>>
             /\ UNCHANGED <<log, gen>>
    /\ UNCHANGED <<fwr, catalog, limit, requests, yielded, runs, batch, brands,
                   categories, products, links>>
    /\ UNCHANGED <<csv, other>>

\* lines 136-141: the workflow has settled; its errors are logged, and the loop
\* asks for the next page
AfterWorkflow ==
    /\ pc = "workflow"
    /\ wf.st \in {"done", "failed"}
    /\ log' = log \cup {IF wf.st = "failed" THEN "batch-error" ELSE "synced"}
    /\ hist' = [NoHist EXCEPT !.createdAny = hist.createdAny,
                              !.allExisted = hist.allExisted]
    /\ wf' = NoWf
    /\ pc' = "next"
    \* the locals of the loop body go out of scope
    /\ batch' = <<>>
    /\ existingProducts' = {}
    /\ createBatch' = <<>>
    /\ updateBatch' = <<>>
    /\ UNCHANGED <<fwr, catalog, limit, gen, requests, yielded, runs, brands,
                   categories, products, links>>
    /\ UNCHANGED <<csv, other>>

\* line 143: the generator returned
LoopDone ==
    /\ pc = "next"
    /\ gen.st = "done"
    /\ pc' = "completed"
    /\ log' = log \cup {"completed"}
    /\ UNCHANGED <<fwr, catalog, limit, gen, requests, yielded, runs, batch,
                   existingProducts, createBatch, updateBatch, wf, brands,
                   categories, products, links, hist>>
    /\ UNCHANGED <<csv, other>>

\* lines 144-146: the generator threw what fetchWithRetry threw
LoopThrown ==
    /\ pc = "next"
    /\ gen.st = "thrown"
    /\ pc' = Caught(log).pc
    /\ log' = Caught(log).log
    /\ UNCHANGED <<fwr, catalog, limit, gen, requests, yielded, runs, batch,
                   existingProducts, createBatch, updateBatch, wf, brands,
                   categories, products, links, hist>>
    /\ UNCHANGED <<csv, other>>

(***************************************************************************)
(* The CSV export route GET, scripts/debug-link.ts lines 37-139            *)
(***************************************************************************)
syncSide == <<fwr, catalog, limit, gen, requests, yielded, pc, runs, batch,
              existingProducts, createBatch, updateBatch, log, wf, brands,
              categories, products, links, hist, other>>

\* A query parameter is a string, given by its characters.  An absent
\* parameter is undefined, which parseInt reads as the string "undefined".
AbsentParam == <<"u", "n", "d", "e", "f", "i", "n", "e", "d">>

NaN == [nan |-> TRUE, n |-> 0]
Num(n) == [nan |-> FALSE, n |-> n]

IsDigit(c) == c \in Range(Digits)
DigitValue(c) == (CHOOSE d \in DOMAIN Digits : Digits[d] = c) - 1

RECURSIVE LeadingDigits(_)
LeadingDigits(s) ==
    IF s = <<>> \/ ~IsDigit(Head(s)) THEN <<>>
    ELSE <<Head(s)>> \o LeadingDigits(Tail(s))

RECURSIVE DigitsValue(_)
DigitsValue(s) ==
    IF s = <<>> THEN 0
    ELSE DigitsValue(SubSeq(s, 1, Len(s) - 1)) * 10 + DigitValue(s[Len(s)])

\* parseInt(s) for a string without white space, "+" or a radix prefix: an
\* optional "-", then the longest run of digits; NaN when there is no digit
ParseInt(s) ==
    LET neg  == s # <<>> /\ Head(s) = "-"
        body == IF neg THEN Tail(s) ELSE s
        ds   == LeadingDigits(body)
    IN IF ds = <<>> THEN NaN
       ELSE Num(IF neg THEN 0 - DigitsValue(ds) ELSE DigitsValue(ds))

\* v || d for a number v: NaN and 0 are falsy
OrDefault(v, d) == IF v.nan \/ v.n = 0 THEN d ELSE v.n

ParamOf(n) == IF n < 0 THEN <<"-">> \o NumToString(0 - n) ELSE NumToString(n)

\* the values of req.query.limit and req.query.offset of the model
LimitParams ==
    {AbsentParam, <<"a", "b", "c">>, <<"7", "a">>}
       \cup {ParamOf(n) : n \in {-5, 0, 1, 2, 50, 51, 100, 101}}
OffsetParams == {AbsentParam, ParamOf(0), ParamOf(3)}

\* the lines of the response body
HeaderLine == [kind |-> "header", pos |-> 0]
RowLine(pos) == [kind |-> "row", pos |-> pos]
\* line 135 writes "\nERROR: ...\n": an empty line, then the line of the error
ErrorChunk == <<[kind |-> "blank", pos |-> 0], [kind |-> "error", pos |-> 0]>>

IdleCsv == [st |-> "idle", limitParam |-> <<>>, offsetParam |-> <<>>, n |-> 0,
            requestedLimit |-> 0, requestedOffset |-> 0, currentOffset |-> 0,
            productsFetched |-> 0, hasMore |-> FALSE, take |-> 0, page |-> <<>>,
            out |-> <<>>, ends |-> 0, outAtEnd |-> 0, queries |-> <<>>,
            threw |-> FALSE]

\* a request GET ?limit=l&offset=o over a store of n products
CallCsv(l, o, n) ==
    [IdleCsv EXCEPT !.st = "called", !.limitParam = l, !.offsetParam = o, !.n = n]

\* lines 41-67: the header is written and the parameters are read
ExportStart ==
    /\ csv.st = "called"
    /\ LET requestedLimit  == OrDefault(ParseInt(csv.limitParam), DefaultExportLimit)
           requestedOffset == OrDefault(ParseInt(csv.offsetParam), DefaultExportOffset)
       IN csv' = [csv EXCEPT !.st = "loop", !.out = Append(@, HeaderLine),
                             !.requestedLimit = requestedLimit,
                             !.requestedOffset = requestedOffset,
                             !.currentOffset = requestedOffset,
                             !.productsFetched = 0, !.hasMore = TRUE]
    /\ UNCHANGED syncSide

\* line 70
ExportLoopContinues(c) == c.hasMore /\ c.productsFetched < c.requestedLimit

TakeWhole(requestedLimit, productsFetched) == BATCH_SIZE

\* lines 72-73
Take(requestedLimit, productsFetched) ==
    Min(BATCH_SIZE, requestedLimit - productsFetched)

\* query.graph({ entity: "product", pagination: { skip, take } }) over a store
\* of n products: the products at the positions skip+1 .. skip+take, if any
QueryGraph(n, skip, take) ==
    [k \in 1 .. (Min(skip + take, n) - Min(skip, n)) |-> skip + k]

\* lines 70-91: the loop test and the query of the next page, which returns or
\* throws
ExportQuery ==
    /\ csv.st = "loop"
    /\ IF ExportLoopContinues(csv)
       THEN LET take == Take(csv.requestedLimit, csv.productsFetched)
                data == QueryGraph(csv.n, csv.currentOffset, take)
                q(got, threw) == [skip |-> csv.currentOffset, take |-> take,
                                  got |-> got, threw |-> threw]
            IN \/ csv' = [csv EXCEPT !.st = "page", !.take = take, !.page = data,
                                     !.queries = Append(@, q(Len(data), FALSE))]
               \/ csv' = [csv EXCEPT !.st = "catch", !.take = take,
                                     !.queries = Append(@, q(0, TRUE))]
       ELSE csv' = [csv EXCEPT !.st = "finally"]
    /\ UNCHANGED syncSide

\* lines 93-131: the rows of the page are written
ExportPage ==
    /\ csv.st = "page"
    /\ IF Len(csv.page) = 0
       THEN \* lines 93-96
            csv' = [csv EXCEPT !.st = "finally", !.hasMore = FALSE]
       ELSE csv' = [csv EXCEPT
                       !.st = "loop",
                       !.out = @ \o [k \in DOMAIN csv.page |-> RowLine(csv.page[k])],
                       !.productsFetched = @ + Len(csv.page),
                       !.currentOffset = @ + Len(csv.page),
                       !.hasMore = ~(Len(csv.page) < csv.take),
                       !.page = <<>>]
    /\ UNCHANGED syncSide

\* lines 133-135
ExportCatch ==
    /\ csv.st = "catch"
    /\ csv' = [csv EXCEPT !.st = "finally", !.out = @ \o ErrorChunk, !.threw = TRUE]
    /\ UNCHANGED syncSide

ResEndNot(c) == c

\* res.end(), line 137
ResEnd(c) == [c EXCEPT !.ends = @ + 1, !.outAtEnd = Len(c.out)]

\* lines 136-138
ExportFinally ==
    /\ csv.st = "finally"
    /\ csv' = [ResEnd(csv) EXCEPT !.st = "done"]
    /\ UNCHANGED syncSide

(***************************************************************************)
(* Two activations of dailyProductSync at the same time                    *)
(***************************************************************************)
\* The scheduled job and testSync (scripts/test-sync.ts line 10) both call
\* dailyProductSync(container) on the same store.  The variables fwr .. hist
\* hold the locals of the activation that is taking a step; other holds the
\* locals of the activation that is waiting at an await.
NoOther == [live |-> FALSE]

Suspended ==
    [live |-> TRUE, fwr |-> fwr, gen |-> gen, requests |-> requests,
     yielded |-> yielded, pc |-> pc, batch |-> batch,
     existingProducts |-> existingProducts, createBatch |-> createBatch,
     updateBatch |-> updateBatch, log |-> log, wf |-> wf, hist |-> hist]

Finished(p) == p \in {"completed", "critical"}

\* the activation that was taking steps waits at its await, and the other
\* activation, which has not returned yet, continues from the await it was at
Switch ==
    /\ other.live
    /\ ~Finished(other.pc)
    /\ other' = Suspended
    /\ fwr' = other.fwr
    /\ gen' = other.gen
    /\ requests' = other.requests
    /\ yielded' = other.yielded
    /\ pc' = other.pc
    /\ batch' = other.batch
    /\ existingProducts' = other.existingProducts
    /\ createBatch' = other.createBatch
    /\ updateBatch' = other.updateBatch
    /\ log' = other.log
    /\ wf' = other.wf
    /\ hist' = other.hist
    /\ UNCHANGED <<catalog, limit, runs, brands, categories, products, links, csv>>

\* manageBrandsStep up to the await of listBrands, lines 36-52
ManageBrandsList ==
    /\ pc = "workflow"
    /\ wf.st = "brands"
    /\ LET brandNames == ExtractBrands(wf)
           uniqueNames == Unique(brandNames)
           existingBrands == ListBrands(uniqueNames)
       IN IF Len(brandNames) = 0
          THEN wf' = [wf EXCEPT !.st = "categories"]
          ELSE \/ \* listBrands throws
                  wf' = [wf EXCEPT !.st = "c_brands"]
               \/ wf' = [wf EXCEPT !.st = "brands_create",
                                   !.brandMap = BrandMapOf(existingBrands)]
    /\ UNCHANGED <<brands, categories, products, links, hist>>
    /\ UNCHANGED fetchSide
    /\ UNCHANGED jobSide
    /\ UNCHANGED <<csv, other>>

\* manageBrandsStep from line 51 on: the brands are created from the map that
\* the list call returned, whatever the table holds by now
ManageBrandsCreate ==
    /\ pc = "workflow"
    /\ wf.st = "brands_create"
    /\ LET uniqueNames == Unique(ExtractBrands(wf))
           toCreate == BrandsToCreate(uniqueNames, wf.brandMap)
           ids == NewIds(BrandTable, [k \in DOMAIN toCreate |-> BrandKey(toCreate[k])],
                         brands)
           created == {[id |-> ids[k], name |-> toCreate[k]] : k \in DOMAIN toCreate}
       IN \/ \* nothing to create
             /\ Len(toCreate) = 0
             /\ wf' = [wf EXCEPT !.st = "categories"]
             /\ UNCHANGED <<brands, hist>>
          \/ \* createBrands throws
             /\ Len(toCreate) > 0
             /\ wf' = [wf EXCEPT !.st = "c_brands"]
             /\ UNCHANGED <<brands, hist>>
          \/ \* lines 55-57
             /\ Len(toCreate) > 0
             /\ brands' = brands \cup created
             /\ hist' = [hist EXCEPT !.made = @ \cup Range(ids)]
             /\ wf' = [wf EXCEPT !.st = "categories",
                          !.brandMap =
                             [n \in DOMAIN wf.brandMap \cup {b.name : b \in created} |->
                                IF \E b \in created : b.name = n
                                THEN (CHOOSE b \in created : b.name = n).id
                                ELSE wf.brandMap[n]],
                          !.brandIds = Range(ids)]
    /\ UNCHANGED <<categories, products, links>>
    /\ UNCHANGED fetchSide
    /\ UNCHANGED jobSide
    /\ UNCHANGED <<csv, other>>

(***************************************************************************)
(* syncProductsWorkflow, the workflow of the second unnamed source file    *)
(***************************************************************************)
\* The run of syncProductsWorkflow: st is the step that runs next
\* ("sync_brands", "sync_products", "link"), the compensation that runs next
\* ("c_link", "c_products", "c_brands"), or the end ("done", "failed").
\* brandIds, productIds and linkData are the compensation data of the three
\* steps; a step that has not returned a StepResponse has none (NoData).
NoData == [given |-> FALSE, value |-> <<>>]
Data(v) == [given |-> TRUE, value |-> v]

NewSyncWf(input) ==
    [st |-> "sync_brands", products |-> input, brandMap |-> EmptyMap,
     brandIds |-> NoData, productMap |-> EmptyMap, productIds |-> NoData,
     links |-> <<>>, linkData |-> NoData]

NoSyncHist ==
    [pre |-> {}, steps |-> <<>>, updated |-> {},
     linkCompensation |-> [ran |-> FALSE, threw |-> FALSE, dismiss |-> <<>>]]

\* ---- Step 1, syncBrandsStep, lines 47-86 ----

\* line 53
SyncBrandNames(input) ==
    Unique(SelectSeq([k \in DOMAIN input |-> input[k].brand], TruthyStr))

\* line 65: existingBrandMap is a Map, has() sees own entries only
SyncBrandsToCreate(brandNames, existingBrands) ==
    SelectSeq(brandNames, LAMBDA n : ~\E b \in existingBrands : b.name = n)

syncBrandsStep ==
    /\ pc = "workflow"
    /\ wf.st = "sync_brands"
    /\ LET brandNames == SyncBrandNames(wf.products)
           existingBrands == ListBrands(brandNames)
           brandsToCreate == SyncBrandsToCreate(brandNames, existingBrands)
           ids == NewIds(BrandTable,
                         [k \in DOMAIN brandsToCreate |-> BrandKey(brandsToCreate[k])],
                         brands)
           createdBrands == {[id |-> ids[k], name |-> brandsToCreate[k]] :
                                k \in DOMAIN brandsToCreate}
           ran == [hist EXCEPT !.steps = Append(@, "sync-brands-step")]
       IN \/ \* listBrands throws, or createBrands does
             /\ wf' = [wf EXCEPT !.st = "c_brands"]
             /\ hist' = ran
             /\ UNCHANGED brands
          \/ \* lines 67-79
             /\ brands' = brands \cup createdBrands
             /\ hist' = ran
             /\ wf' = [wf EXCEPT !.st = "sync_products",
                          !.brandMap = BrandMapOf(existingBrands \cup createdBrands),
                          !.brandIds = Data(Range(ids))]
    /\ UNCHANGED <<categories, products, links>>
    /\ UNCHANGED fetchSide
    /\ UNCHANGED jobSide
    /\ UNCHANGED <<csv, other>>

\* lines 81-85
syncBrandsCompensate(createdIds) ==
    IF ~createdIds.given \/ createdIds.value = {} THEN brands
    ELSE {b \in brands : b.id \notin createdIds.value}

CompensateSyncBrands ==
    /\ pc = "workflow"
    /\ wf.st = "c_brands"
    /\ brands' = syncBrandsCompensate(wf.brandIds)
    /\ wf' = [wf EXCEPT !.st = "failed"]
    /\ UNCHANGED <<categories, products, links, hist>>
    /\ UNCHANGED fetchSide
    /\ UNCHANGED jobSide
    /\ UNCHANGED <<csv, other>>

\* ---- Step 2, syncProductsStep, lines 90-189 ----

\* lines 146-149: the metadata of productData
SyncProductData(p, brandMap) ==
    [external_id |-> NumToString(p.id), brand_id |-> JsGet(brandMap, p.brand)]

SyncProductRow(id, data) ==
    [id |-> id, external_id |-> data.external_id, brand_id |-> data.brand_id]

\* lines 120-160
SyncSplit(input, existing, brandMap) ==
    LET isNew(p) == ~HasExisting(existing, NumToString(p.id))
        isOld(p) == HasExisting(existing, NumToString(p.id))
        cs == SelectSeq(input, isNew)
        us == SelectSeq(input, isOld)
    IN [toCreate |-> [k \in DOMAIN cs |-> SyncProductData(cs[k], brandMap)],
        toUpdate |-> [k \in DOMAIN us |->
                        SyncProductRow(GetExisting(existing, NumToString(us[k].id)).id,
                                       SyncProductData(us[k], brandMap))]]

\* lines 178-180
ProductExternalIdMap(created, existing) ==
    [e \in {p.external_id : p \in created \cup existing} |->
        IF \E p \in existing : p.external_id = e
        THEN (CHOOSE p \in existing : p.external_id = e).id
        ELSE (CHOOSE p \in created : p.external_id = e).id]

syncProductsStep ==
    /\ pc = "workflow"
    /\ wf.st = "sync_products"
    /\ LET externalIds == ExternalIds(wf.products)
           existing == ListProducts(products, externalIds)
           split == SyncSplit(wf.products, existing, wf.brandMap)
           ids == NewIds(ProductTable,
                         [k \in DOMAIN split.toCreate |->
                            ProductKey(split.toCreate[k].external_id)],
                         products)
           created == {SyncProductRow(ids[k], split.toCreate[k]) :
                          k \in DOMAIN split.toCreate}
           ran == [hist EXCEPT !.steps = Append(@, "sync-products-step")]
       IN \/ \* listProducts throws, or createProducts does
             /\ wf' = [wf EXCEPT !.st = "c_products"]
             /\ hist' = ran
             /\ UNCHANGED products
          \/ \* lines 162-172: the products are created, then every update of
             \* the Promise.all settles on its own
             \E ok \in SUBSET DOMAIN split.toUpdate :
                LET updated == {split.toUpdate[k] : k \in ok}
                    kept == {p \in products : \A u \in updated : u.id # p.id}
                IN /\ products' = kept \cup updated \cup created
                   /\ hist' = [ran EXCEPT !.updated = updated]
                   /\ IF ok = DOMAIN split.toUpdate
                      THEN wf' = [wf EXCEPT !.st = "link",
                                     !.productMap = ProductExternalIdMap(created, existing),
                                     !.productIds = Data({p.id : p \in created})]
                      ELSE wf' = [wf EXCEPT !.st = "c_products"]
    /\ UNCHANGED <<brands, categories, links>>
    /\ UNCHANGED fetchSide
    /\ UNCHANGED jobSide
    /\ UNCHANGED <<csv, other>>

\* lines 184-188
syncProductsCompensate(createdIds) ==
    IF ~createdIds.given \/ createdIds.value = {} THEN products
    ELSE {p \in products : p.id \notin createdIds.value}

CompensateSyncProducts ==
    /\ pc = "workflow"
    /\ wf.st = "c_products"
    /\ products' = syncProductsCompensate(wf.productIds)
    /\ wf' = [wf EXCEPT !.st = "c_brands"]
    /\ UNCHANGED <<brands, categories, links, hist>>
    /\ UNCHANGED fetchSide
    /\ UNCHANGED jobSide
    /\ UNCHANGED <<csv, other>>

\* ---- Step 3, linkProductBrandsStep, lines 192-223 ----

\* lines 197-209
SyncLinks(input, productMap, brandMap) ==
    LET linked(p) == /\ Truthy(JsGet(productMap, NumToString(p.id)))
                     /\ Truthy(JsGet(brandMap, p.brand))
        ps == SelectSeq(input, linked)
    IN [k \in DOMAIN ps |-> [product_id |-> JsGet(productMap, NumToString(ps[k].id)),
                             brand_id |-> JsGet(brandMap, ps[k].brand)]]

syncLinkProductBrandsStep ==
    /\ pc = "workflow"
    /\ wf.st = "link"
    /\ LET ls == SyncLinks(wf.products, wf.productMap, wf.brandMap)
       IN /\ hist' = [hist EXCEPT !.steps = Append(@, "link-product-brands-step")]
          /\ \/ \* lines 211-215
                /\ links' = links \cup Range(ls)
                /\ wf' = [wf EXCEPT !.st = "done", !.links = ls, !.linkData = Data(ls)]
             \/ \* remoteLink.create throws
                /\ Len(ls) > 0
                /\ wf' = [wf EXCEPT !.st = "c_link", !.links = ls]
                /\ UNCHANGED links
    /\ UNCHANGED <<brands, categories, products>>
    /\ UNCHANGED fetchSide
    /\ UNCHANGED jobSide
    /\ UNCHANGED <<csv, other>>

\* lines 217-222: links.length is read without a guard, which throws a
\* TypeError when the compensation is given no data
syncLinkCompensate(data) ==
    IF ~data.given THEN [threw |-> TRUE, dismiss |-> <<>>]
    ELSE [threw |-> FALSE, dismiss |-> data.value]

\* the step that failed is compensated first; the compensations of the steps
\* before it follow whether or not this one throws
CompensateSyncLink ==
    /\ pc = "workflow"
    /\ wf.st = "c_link"
    /\ LET c == syncLinkCompensate(wf.linkData)
       IN /\ links' = links \ Range(c.dismiss)
          /\ hist' = [hist EXCEPT !.linkCompensation =
                         [ran |-> TRUE, threw |-> c.threw, dismiss |-> c.dismiss]]
    /\ wf' = [wf EXCEPT !.st = "c_products"]
    /\ UNCHANGED <<brands, categories, products>>
    /\ UNCHANGED fetchSide
    /\ UNCHANGED jobSide
    /\ UNCHANGED <<csv, other>>

(***************************************************************************)
(* Specifications                                                          *)
(***************************************************************************)
\* The store is empty and the job has not run; the page size is fixed for the
\* behaviour.
Init ==
    /\ fwr = IdleFwr
    /\ catalog = <<>>
    /\ limit \in MinLimit .. MaxLimit
    /\ gen = NoGen
    /\ requests = <<>>
    /\ yielded = <<>>
    /\ pc = "idle"
    /\ runs = 0
    /\ batch = <<>>
    /\ existingProducts = {}
    /\ createBatch = <<>>
    /\ updateBatch = <<>>
    /\ log = {}
    /\ wf = NoWf
    /\ brands = {}
    /\ categories = {}
    /\ products = {}
    /\ links = {}
    /\ hist = NoHist
    /\ csv = IdleCsv
    /\ other = NoOther

Next ==
    \/ StartRun
    \/ AdminPublish
    \/ GenResume
    \/ FwrAttempt
    \/ FwrBackoffElapsed
    \/ GenReceive
    \/ TakeBatch
    \/ LookupExisting
    \/ ManageBrands
    \/ ManageCategories
    \/ CreateProducts
    \/ UpdateProducts
    \/ LinkProductBrands
    \/ CompensateUpdate
    \/ CompensateCreate
    \/ CompensateCategories
    \/ CompensateBrands
    \/ AfterWorkflow
    \/ LoopDone
    \/ LoopThrown

Spec == Init /\ [][Next]_vars

\* fetchWithRetry on its own, called with any retries and backoff
InitRetry ==
    /\ \E r \in 0 .. MaxRetries, b \in BackoffChoices : fwr = CallFwr(r, b)
    /\ catalog = <<>>
    /\ limit = 1
    /\ gen = NoGen
    /\ requests = <<>>
    /\ yielded = <<>>
    /\ pc = "idle"
    /\ runs = 0
    /\ batch = <<>>
    /\ existingProducts = {}
    /\ createBatch = <<>>
    /\ updateBatch = <<>>
    /\ log = {}
    /\ wf = NoWf
    /\ brands = {}
    /\ categories = {}
    /\ products = {}
    /\ links = {}
    /\ hist = NoHist
    /\ csv = IdleCsv
    /\ other = NoOther

NextRetry ==
    \/ FwrAttempt
    \/ FwrBackoffElapsed
    \/ FwrUnreachable

SpecRetry == InitRetry /\ [][NextRetry]_vars

\* one request to the CSV export route, with any parameters, over any store
InitExport ==
    /\ \E l \in LimitParams, o \in OffsetParams, n \in 0 .. MaxStore :
          csv = CallCsv(l, o, n)
    /\ fwr = IdleFwr
    /\ catalog = <<>>
    /\ limit = 1
    /\ gen = NoGen
    /\ requests = <<>>
    /\ yielded = <<>>
    /\ pc = "idle"
    /\ runs = 0
    /\ batch = <<>>
    /\ existingProducts = {}
    /\ createBatch = <<>>
    /\ updateBatch = <<>>
    /\ log = {}
    /\ wf = NoWf
    /\ brands = {}
    /\ categories = {}
    /\ products = {}
    /\ links = {}
    /\ hist = NoHist
    /\ other = NoOther

NextExport ==
    \/ ExportStart
    \/ ExportQuery
    \/ ExportPage
    \/ ExportCatch
    \/ ExportFinally

SpecExport == InitExport /\ [][NextExport]_vars

\* the handler keeps running: a query that was issued settles, and the code
\* after it is executed
SpecExportFair == SpecExport /\ WF_vars(NextExport)

\* batchProductsWorkflow run on one batch of records of any brand and category,
\* over a store that earlier batches have filled: the state dailyProductSync is
\* in at line 128, after the lookup and the split of lines 100-125
InputBrandNames == {"", "Apple"}
InputCategoryNames == {"", "A b", "constructor"}

InputRecord(i, b, c) == [id |-> i, brand |-> b, category |-> c]

InputBatches ==
    LET first == {InputRecord(1, b, c) : b \in InputBrandNames, c \in InputCategoryNames}
        second == {InputRecord(2, b, c) : b \in InputBrandNames, c \in InputCategoryNames}
    IN {<<r>> : r \in first \cup second} \cup {<<r, q>> : r \in first, q \in second}

\* the category and the product that an earlier batch may have left
StoredCategory ==
    [id |-> NewIds(CategoryTable, <<CategoryKey(nameToHandle("A b"))>>, {})[1],
     name |-> "A b", handle |-> nameToHandle("A b")]

StoredProduct(categoryIds) ==
    ProductRow(NewIds(ProductTable, <<ProductKey(NumToString(2))>>, {})[1],
               [external_id |-> NumToString(2), status |-> ProductStatus["DRAFT"],
                category_ids |-> categoryIds])

InputStores ==
    {[categories |-> {}, products |-> {}],
     [categories |-> {}, products |-> {StoredProduct(<<>>)}],
     [categories |-> {StoredCategory}, products |-> {}],
     [categories |-> {StoredCategory}, products |-> {StoredProduct(<<>>)}],
     [categories |-> {StoredCategory},
      products |-> {StoredProduct(<<StoredCategory.id>>)}]}

InitBatch ==
    /\ \E b \in InputBatches, store \in InputStores :
          LET existing == ListProducts(store.products, ExternalIds(b))
              split == SplitBatch(b, existing)
          IN /\ batch = b
             /\ categories = store.categories
             /\ products = store.products
             /\ existingProducts = existing
             /\ createBatch = split.create
             /\ updateBatch = split.update
             /\ wf = NewWf(split.create, split.update)
             /\ hist = [NoHist EXCEPT !.pre =
                           {r.id : r \in store.categories \cup store.products}]
    /\ fwr = IdleFwr
    /\ catalog = <<>>
    /\ limit = MinLimit
    /\ gen = NoGen
    /\ requests = <<>>
    /\ yielded = <<>>
    /\ pc = "workflow"
    /\ runs = 1
    /\ log = {"starting", "processing"}
    /\ brands = {}
    /\ links = {}
    /\ csv = IdleCsv
    /\ other = NoOther

NextBatch ==
    \/ ManageBrands
    \/ ManageCategories
    \/ CreateProducts
    \/ UpdateProducts
    \/ LinkProductBrands
    \/ CompensateUpdate
    \/ CompensateCreate
    \/ CompensateCategories
    \/ CompensateBrands

SpecBatch == InitBatch /\ [][NextBatch]_vars

\* The scheduled job and the manual run have both logged their first line
\* (line 94) and are about to ask for their first page; the store is empty.
InitOverlap ==
    /\ fwr = IdleFwr
    /\ catalog \in Catalogs
    /\ limit \in MinLimit .. MaxLimit
    /\ gen = NewGen
    /\ requests = <<>>
    /\ yielded = <<>>
    /\ pc = "next"
    /\ runs = 2
    /\ batch = <<>>
    /\ existingProducts = {}
    /\ createBatch = <<>>
    /\ updateBatch = <<>>
    /\ log = {"starting"}
    /\ wf = NoWf
    /\ brands = {}
    /\ categories = {}
    /\ products = {}
    /\ links = {}
    /\ hist = [NoHist EXCEPT !.allExisted = (catalog = <<>>)]
    /\ csv = IdleCsv
    /\ other = Suspended

NextOverlap ==
    \/ Switch
    \/ GenResume
    \/ FwrAttempt
    \/ FwrBackoffElapsed
    \/ GenReceive
    \/ TakeBatch
    \/ LookupExisting
    \/ ManageBrandsList
    \/ ManageBrandsCreate
    \/ ManageCategories
    \/ CreateProducts
    \/ UpdateProducts
    \/ LinkProductBrands
    \/ CompensateUpdate
    \/ CompensateCreate
    \/ CompensateCategories
    \/ CompensateBrands
    \/ AfterWorkflow
    \/ LoopDone
    \/ LoopThrown

SpecOverlap == InitOverlap /\ [][NextOverlap]_vars

\* syncProductsWorkflow run on any list of records, over a store that an
\* earlier run may have filled
SyncBrandChoices == {"", "Apple", "constructor"}

SyncInputs ==
    LET first == {InputRecord(1, b, "") : b \in SyncBrandChoices}
        second == {InputRecord(2, b, "") : b \in SyncBrandChoices}
    IN {<<>>} \cup {<<r>> : r \in first \cup second}
       \cup {<<r, q>> : r \in first, q \in second}

StoredBrand ==
    [id |-> NewIds(BrandTable, <<BrandKey("Apple")>>, {})[1], name |-> "Apple"]

StoredSyncProduct ==
    SyncProductRow(NewIds(ProductTable, <<ProductKey(NumToString(1))>>, {})[1],
                   [external_id |-> NumToString(1), brand_id |-> Undefined])

InitSync ==
    /\ \E input \in SyncInputs : wf = NewSyncWf(input)
    /\ brands \in SUBSET {StoredBrand}
    /\ products \in SUBSET {StoredSyncProduct}
    /\ hist = [NoSyncHist EXCEPT !.pre = {r.id : r \in brands \cup products}]
    /\ fwr = IdleFwr
    /\ catalog = <<>>
    /\ limit = MinLimit
    /\ gen = NoGen
    /\ requests = <<>>
    /\ yielded = <<>>
    /\ pc = "workflow"
    /\ runs = 1
    /\ batch = <<>>
    /\ existingProducts = {}
    /\ createBatch = <<>>
    /\ updateBatch = <<>>
    /\ log = {}
    /\ categories = {}
    /\ links = {}
    /\ csv = IdleCsv
    /\ other = NoOther

NextSync ==
    \/ syncBrandsStep
    \/ syncProductsStep
    \/ syncLinkProductBrandsStep
    \/ CompensateSyncLink
    \/ CompensateSyncProducts
    \/ CompensateSyncBrands

SpecSync == InitSync /\ [][NextSync]_vars

TypeOK ==
    /\ pc \in {"idle", "next", "lookup", "workflow", "completed", "critical"}
    /\ gen.st \in {"none", "start", "fetching", "yielded", "suspended", "done",
                   "thrown", "closed"}
    /\ fwr.st \in {"idle", "try", "wait", "ret", "thrown"}
    /\ wf.st \in {"idle", "brands", "brands_create", "categories", "create",
                  "update", "link",
                  "done", "c_update", "c_create", "c_categories", "c_brands",
                  "failed", "sync_brands", "sync_products", "c_link",
                  "c_products"}
    /\ \A r \in brands \cup categories \cup products : r.id > 0

(***************************************************************************)
(* Properties                                                              *)
(***************************************************************************)
IsDefaultCall == fwr.retries = DefaultRetries /\ fwr.backoff = DefaultBackoff
Settled == fwr.st \in {"ret", "thrown"}

\* C1 as stated: with the default arguments fetchWithRetry makes at most two
\* attempts, returns the body of the first attempt whose response is HTTP ok
\* without a further attempt, makes a second attempt exactly when the first
\* ended in a network error or a non-ok status, throws the error of the second
\* attempt when both fail, and never reaches the 'Unreachable' throw.
C1_AsStated ==
    IsDefaultCall =>
       /\ Len(fwr.att) <= 2
       /\ fwr.err.kind # "unreachable"
       /\ \A k \in DOMAIN fwr.att :
             fwr.att[k] \in {"ok", "badjson"} =>
                k = Len(fwr.att) /\ fwr.st = "ret" /\ fwr.body = k - 1
       /\ Len(fwr.att) = 2 => fwr.att[1] \in {"neterr", "status"}
       /\ (Settled /\ fwr.att[1] \in {"neterr", "status"}) => Len(fwr.att) = 2
       /\ fwr.st = "thrown" =>
             Len(fwr.att) = 2 /\ fwr.err = [kind |-> fwr.att[2], at |-> 1]

\* C1 amended: the same, where an attempt succeeds when the response is HTTP
\* ok and its body parses, and fails on a network error, a non-ok status or a
\* body that does not parse.
C1_TwoAttempts ==
    IsDefaultCall =>
       /\ Len(fwr.att) <= 2
       /\ fwr.err.kind # "unreachable"
       /\ \A k \in DOMAIN fwr.att :
             fwr.att[k] = "ok" =>
                k = Len(fwr.att) /\ fwr.st = "ret" /\ fwr.body = k - 1
       /\ fwr.st = "ret" => fwr.att[Len(fwr.att)] = "ok"
       /\ Len(fwr.att) = 2 => fwr.att[1] \in {"neterr", "status", "badjson"}
       /\ (Settled /\ fwr.att[1] \in {"neterr", "status", "badjson"}) =>
             Len(fwr.att) = 2
       /\ fwr.st = "thrown" =>
             Len(fwr.att) = 2 /\ fwr.err = [kind |-> fwr.att[2], at |-> 1]

\* both attempts of a default call failed and the second error was thrown
C1_Witness ==
    IsDefaultCall /\ fwr.st = "thrown" /\ fwr.err.at = 1 /\ Len(fwr.att) = 2

\* C10: the k-th wait of a call lasts backoff * 2^(k-1) ms, one wait follows
\* each failed attempt except the last allowed one, and a default call waits
\* once, 1000 ms, when its first attempt fails and not at all when it succeeds.
C10_BackoffWaits ==
    /\ \A k \in DOMAIN fwr.waits : fwr.waits[k] = fwr.backoff * (2 ^ (k - 1))
    /\ fwr.st \in {"wait", "ret", "thrown"} =>
          Len(fwr.waits) = Cardinality({k \in DOMAIN fwr.att :
                                          fwr.att[k] # "ok" /\ k < fwr.retries})
    /\ (IsDefaultCall /\ Settled) =>
          /\ fwr.att[1] # "ok" => fwr.waits = <<1000>>
          /\ fwr.att[1] = "ok" => fwr.waits = <<>>

\* a call with three attempts has failed twice and waited twice
C10_Witness ==
    fwr.retries = 3 /\ fwr.backoff = 1000 /\ fwr.waits = <<1000, 2000>>

\* the number of pages of a catalog of n records
ExpectedRequests(n, lim) == IF n = 0 THEN 1 ELSE (n + lim - 1) \div lim

\* the processing of some batch of the run failed: the workflow returned errors
\* (line 137), or the lookup threw and closed the generator
BatchFailed == "batch-error" \in log \/ gen.st = "closed"

\* C2 as stated: a batch whose processing failed does not cut the run short:
\* unless a page fetch fails, a run in which a batch failed still requests
\* every page of the catalog.
C2_RunContinuesAfterBatchFailure ==
    (pc \in {"completed", "critical"} /\ BatchFailed /\ gen.st # "thrown") =>
       Len(requests) = ExpectedRequests(Len(catalog), limit)

\* C3: when a workflow run has failed and its compensation is over, no row
\* created by the run is left and every row that existed before is still there.
C3_CompensationDeletesCreatedRows ==
    wf.st = "failed" =>
       /\ hist.made \cap RowIds = {}
       /\ hist.pre \subseteq RowIds

\* a failed run had created a brand, a category and a product, next to rows
\* that were there before
C3_Witness ==
    /\ wf.st = "failed"
    /\ wf.brandIds # {} /\ wf.categoryIds # {} /\ wf.productIds # {}
    /\ hist.pre # {}

\* C4: after the split each record of the batch is in exactly one of
\* createBatch and updateBatch; it is in updateBatch, with the id of a returned
\* product, iff the lookup returned a product with its external id.
C4_CreateUpdateSplit ==
    pc = "workflow" =>
       /\ Len(createBatch) + Len(updateBatch) = Len(batch)
       /\ \A k \in DOMAIN batch :
             LET ext == NumToString(batch[k].id)
                 matched == \E p \in existingProducts : p.external_id = ext
                 inCreate == {j \in DOMAIN createBatch : createBatch[j].external_id = ext}
                 inUpdate == {j \in DOMAIN updateBatch : updateBatch[j].external_id = ext}
             IN /\ Cardinality(inCreate) + Cardinality(inUpdate) = 1
                /\ matched <=> inUpdate # {}
                /\ \A j \in inUpdate :
                      \E p \in existingProducts :
                         p.external_id = ext /\ p.id = updateBatch[j].id

\* a batch with a record to create and a record to update
C4_Witness ==
    pc = "workflow" /\ Len(createBatch) > 0 /\ Len(updateBatch) > 0

\* C5: the store never holds two products with one external id, and a run that
\* started with a local product for every remote record creates no product.
C5_IdempotentResync ==
    /\ \A p, q \in products : p.external_id = q.external_id => p = q
    /\ hist.allExisted => ~hist.createdAny

\* a second run over a synced catalog has completed and updated a batch
C5_Witness ==
    /\ runs = 2 /\ pc = "completed" /\ hist.allExisted
    /\ catalog # <<>> /\ "synced" \in log

\* C6 as stated: once manageBrandsStep has returned, its map gives every input
\* name the id of a brand row with that name, rows were created only for names
\* without a row, and no name has two brand rows.
C6_BrandsDeduplicated ==
    /\ (pc = "workflow" /\ wf.st = "categories") =>
          /\ \A n \in Range(ExtractBrands(wf)) :
                /\ n \in DOMAIN wf.brandMap
                /\ \E b \in brands : b.id = wf.brandMap[n] /\ b.name = n
          /\ \A b \in brands :
                b.id \in wf.brandIds =>
                   ~\E o \in brands : o.name = b.name /\ o.id \in hist.pre
    /\ \A b, o \in brands : b.name = o.name => b = o

\* C7 as stated: no category create call names a handle the store already
\* holds, none names a handle twice, and no handle has two category rows.
C7_CategoriesDeduplicated ==
    /\ \A k \in DOMAIN hist.catCreate :
          hist.catCreate[k].handle \notin hist.catCreateSeen
    /\ \A j, k \in DOMAIN hist.catCreate :
          hist.catCreate[j].handle = hist.catCreate[k].handle => j = k
    /\ \A c, d \in categories : c.handle = d.handle => c = d

\* C8: a page is requested only while no batch is in progress: the loop is
\* waiting for the generator and the lookup and the workflow of the page before
\* are over.
C8_OneBatchAtATime ==
    [][Len(requests') > Len(requests) =>
          (pc = "next" /\ wf.st = "idle" /\ batch = <<>>)]_vars

\* the second page was requested and its batch is in the workflow
C8_Witness ==
    Len(requests) >= 2 /\ pc = "workflow" /\ wf.st = "brands"

\* C9: the k-th request asks for skip = (k-1)*limit with the same limit; a
\* request after the first is issued only while skip is below the reported
\* total; the generator returns on an empty page or when the next skip reaches
\* the total; it never issues more than ceil(total/limit) requests (one for an
\* empty catalog) and, when it returns, has issued exactly that many and
\* yielded the catalog, each record once.
C9_Pagination ==
    /\ \A k \in DOMAIN requests :
          requests[k] = [limit |-> limit, skip |-> (k - 1) * limit]
    /\ gen.st = "fetching" => (gen.skip = 0 \/ gen.skip < gen.total)
    /\ Len(requests) <= ExpectedRequests(Len(catalog), limit)
    /\ gen.st = "done" =>
          /\ \/ Len(RemotePage(catalog, limit, gen.skip).products) = 0
             \/ gen.skip >= gen.total
          /\ Len(requests) = ExpectedRequests(Len(catalog), limit)
          /\ yielded = catalog

\* three records were read in two pages of two
C9_Witness ==
    gen.st = "done" /\ limit = 2 /\ Len(catalog) = 3 /\ Len(requests) = 2

\* C11: the update calls of one batch target pairwise different product ids,
\* and the product rows after the calls do not depend on the order in which
\* the calls complete, whichever of them succeed.
C11_UpdatesIndependent ==
    (pc = "workflow" /\ wf.st = "update") =>
       /\ \A j, k \in DOMAIN wf.update : wf.update[j].id = wf.update[k].id => j = k
       /\ \A ok \in SUBSET DOMAIN wf.update :
             \A o1, o2 \in Orders(ok) :
                ApplyInOrder(products, wf.update, o1, wf.categoryMap)
                   = ApplyInOrder(products, wf.update, o2, wf.categoryMap)

\* the update step has issued two calls at once and both have completed
C11_Witness ==
    pc = "workflow" /\ wf.st = "link" /\ Len(wf.update) >= 2
       /\ Len(wf.updatedProducts) = Len(wf.update)

\* the product rows of the response body, as store positions
RowsWritten == SelectSeq(csv.out, LAMBDA l : l.kind = "row")

C12_Safety ==
    /\ csv.st \notin {"idle", "called"} =>
          /\ csv.out # <<>>
          /\ csv.out[1] = HeaderLine
          /\ \A k \in 2 .. Len(csv.out) : csv.out[k].kind # "header"
    /\ csv.ends <= 1
    /\ csv.ends = 1 <=> csv.st = "done"
    /\ csv.ends = 1 => Len(csv.out) = csv.outAtEnd
    /\ csv.st = "done" =>
          IF csv.threw
          THEN /\ Len(csv.out) >= 3
               /\ SubSeq(csv.out, Len(csv.out) - 1, Len(csv.out)) = ErrorChunk
               /\ \A k \in 2 .. (Len(csv.out) - 2) : csv.out[k].kind = "row"
          ELSE \A k \in 2 .. Len(csv.out) : csv.out[k].kind = "row"

\* C12: in every execution of GET the header is the first line written and
\* is written once; the response is ended, exactly once, and nothing is written
\* after that; when the query threw, the body ends with the ERROR line, after
\* the rows written before, and otherwise it holds the header and rows only.
C12_HeaderFirstEndedOnce == []C12_Safety /\ <>(csv.st = "done")

\* the second query threw after a page of rows was written, and the response
\* was ended
C12_Witness ==
    csv.st = "done" /\ csv.threw /\ Len(RowsWritten) = BATCH_SIZE /\ csv.ends = 1

\* the number of products returned by the queries before the k-th
RECURSIVE GotBefore(_)
GotBefore(k) == IF k <= 1 THEN 0 ELSE GotBefore(k - 1) + csv.queries[k - 1].got

ExportParamsRead ==
    /\ csv.requestedLimit =
          (IF ParseInt(csv.limitParam).nan \/ ParseInt(csv.limitParam).n = 0
           THEN 100 ELSE ParseInt(csv.limitParam).n)
    /\ csv.requestedOffset =
          (IF ParseInt(csv.offsetParam).nan THEN 0 ELSE ParseInt(csv.offsetParam).n)

ExportPaging ==
    /\ \A k \in DOMAIN RowsWritten : RowsWritten[k].pos = csv.requestedOffset + k
    /\ \A k \in DOMAIN csv.queries :
          /\ csv.queries[k].take = Min(50, csv.requestedLimit - GotBefore(k))
          /\ csv.queries[k].skip = csv.requestedOffset + GotBefore(k)
          /\ GotBefore(k) < csv.requestedLimit
          /\ k < Len(csv.queries) =>
                /\ csv.queries[k].got > 0
                /\ csv.queries[k].got = csv.queries[k].take
    /\ csv.st \in {"loop", "finally", "done"} =>
          Len(RowsWritten) = GotBefore(Len(csv.queries) + 1)
    /\ csv.st = "done" =>
          \/ csv.threw
          \/ Len(RowsWritten) >= csv.requestedLimit
          \/ /\ csv.queries # <<>>
             /\ csv.queries[Len(csv.queries)].got < csv.queries[Len(csv.queries)].take

\* C13 as stated: GET writes at most requestedLimit rows (100 when the limit
\* parameter is absent, unparsable or 0), from requestedOffset on; each query
\* asks for min(50, requestedLimit - rows written) products at skip =
\* requestedOffset + rows written; no query follows one that returned no
\* product or fewer than take, or is issued once requestedLimit rows are written.
C13_AsStated ==
    csv.st \notin {"idle", "called"} =>
       /\ ExportParamsRead
       /\ Len(RowsWritten) <= csv.requestedLimit
       /\ ExportPaging

\* C13 amended: the same, where the number of rows is at most requestedLimit
\* when requestedLimit is positive and zero when it is negative.
C13_ExportLimit ==
    csv.st \notin {"idle", "called"} =>
       /\ ExportParamsRead
       /\ Len(RowsWritten) <= (IF csv.requestedLimit < 0 THEN 0 ELSE csv.requestedLimit)
       /\ ExportPaging

\* limit=51 over a store that holds more: a page of 50, then a page of 1
C13_Witness ==
    /\ csv.st = "done" /\ ~csv.threw /\ csv.requestedLimit = 51
    /\ Len(csv.queries) = 2 /\ csv.queries[2].take = 1 /\ Len(RowsWritten) = 51

\* C14: dailyProductSync never ends by throwing.  A run ends "completed" or
\* "critical"; it logs the critical error exactly when an error was raised
\* inside the loop (the page fetch or the lookup threw), and it logs 'Daily
\* product sync completed.' exactly when the generator returned and the loop
\* ended without an error.
C14_NeverThrows ==
    /\ pc # "thrown"
    /\ "completed" \in log <=> pc = "completed"
    /\ "critical" \in log <=> pc = "critical"
    /\ pc = "completed" => gen.st = "done"
    /\ pc = "critical" => gen.st \in {"thrown", "closed"}
    /\ gen.st = "closed" => pc = "critical"
    /\ gen.st = "thrown" => pc \in {"next", "critical"}
    /\ gen.st = "done" => pc \in {"next", "completed"}

\* a run whose first batch failed in the workflow and whose next page fetch
\* failed after its retries has ended with the critical error logged
C14_Witness ==
    pc = "critical" /\ gen.st = "thrown" /\ "batch-error" \in log

\* C15 as stated: once manageCategoriesStep has returned, its map has an
\* entry for every category name of the batch, and the entry is the id of a
\* category row whose handle is the handle derived from the name.
C15_CategoryMapComplete ==
    (pc = "workflow" /\ wf.st = "create") =>
       \A n \in Range(ExtractCategories(wf)) :
          /\ n \in DOMAIN wf.categoryMap
          /\ \E c \in categories :
                c.id = wf.categoryMap[n] /\ c.handle = nameToHandle(n)

\* the records of the batch that have a brand name
BatchBrandNames ==
    {[external_id |-> x.external_id, brandName |-> x.brandName] :
        x \in {y \in Range(wf.create) \cup Range(wf.update) : TruthyStr(y.brandName)}}

\* the link service carried out the calls of the link step, if any
LinkServiceAccepted ==
    hist.linkCalls.create = <<>>
       \/ (hist.linkCalls.dismissed /\ hist.linkCalls.created)

\* C16 as stated: when the workflow has succeeded, the links passed to dismiss
\* and to create are the same and hold no pair twice; and if the link service
\* carried out the calls, every product created or updated from a record with
\* a brand name is linked to the brand row that brandMap gives for the name.
C16_ProductsLinked ==
    (pc = "workflow" /\ wf.st = "done") =>
       /\ hist.linkCalls.dismiss = hist.linkCalls.create
       /\ \A j, k \in DOMAIN hist.linkCalls.create :
             hist.linkCalls.create[j] = hist.linkCalls.create[k] => j = k
       /\ LinkServiceAccepted =>
             \A i \in BatchBrandNames :
                \E p \in products, b \in brands :
                   /\ p.external_id = i.external_id
                   /\ b.name = i.brandName
                   /\ i.brandName \in DOMAIN wf.brandMap
                   /\ wf.brandMap[i.brandName] = b.id
                   /\ [product_id |-> p.id, brand_id |-> b.id] \in links

\* C18: once the link step has run the workflow is done, never compensated:
\* create was called with the links of dismiss whether dismiss threw or not, a
\* throw of create left a warning in the log, and every row the workflow
\* created is still in the store, a created product without link included.
C18_LinkStepNeverFails ==
    /\ hist.linkCalls.ran <=> (pc = "workflow" /\ wf.st = "done")
    /\ hist.linkCalls.ran =>
          /\ hist.linkCalls.create = hist.linkCalls.dismiss
          /\ (hist.linkCalls.create # <<>> /\ ~hist.linkCalls.created) =>
                "link-warning" \in log
          /\ hist.made \subseteq RowIds
          /\ wf.productIds \subseteq {p.id : p \in products}

\* dismiss and create both threw for a batch that created a product: the
\* workflow is done and the product has no link
C18_Witness ==
    /\ pc = "workflow" /\ wf.st = "done"
    /\ hist.linkCalls.create # <<>>
    /\ ~hist.linkCalls.dismissed /\ ~hist.linkCalls.created
    /\ wf.productIds # {}
    /\ \A l \in links : l.product_id \notin wf.productIds

C17_NoOtherBrandLinked ==
    (pc = "workflow" /\ wf.st = "done" /\ LinkServiceAccepted) =>
       \A i \in BatchBrandNames :
          \A p \in products, l \in links, b \in brands :
             (p.external_id = i.external_id /\ l.product_id = p.id
                 /\ l.brand_id = b.id) => b.name = i.brandName

\* status strings given to the status mapping of lines 145 and 174
StatusStrings ==
    {"draft", "DRAFT", "Draft", "published", "PUBLISHED", "Published",
     "proposed", "PROPOSED", "rejected", "REJECTED", "archived", "constructor"}

\* the products the current batch has created or updated so far
TouchedIds == wf.productIds \cup {r.id : r \in hist.updated}

\* C20: every record of a batch carries status 'draft'; a product the batch
\* has created or updated is draft in the store, whatever its status was
\* before; where the create and update steps apply it, the status mapping
\* ignores case and gives draft for a string that names no status, and an
\* update call keeps the status of the row only when its record has no status.
C20_SyncedProductsAreDraft ==
    /\ \A x \in Range(wf.create) \cup Range(wf.update) : x.status = "draft"
    /\ (pc = "workflow" /\ wf.st \notin {"c_create", "c_categories", "c_brands", "failed"}) =>
          \A p \in products : p.id \in TouchedIds => p.status = "draft"
    /\ \A r \in hist.updated : r.status = "draft"
    /\ (pc = "workflow" /\ wf.st \in {"create", "update"}) =>
          /\ \A s \in StatusStrings :
                MapStatus(s) =
                   (CASE s \in {"published", "PUBLISHED", "Published"} -> "published"
                      [] s \in {"proposed", "PROPOSED"}                -> "proposed"
                      [] s \in {"rejected", "REJECTED"}                -> "rejected"
                      [] OTHER                                         -> "draft")
          /\ \A p \in products, s \in StatusStrings \cup {""} :
                UpdatedRow(p, [id |-> p.id, status |-> s,
                               external_id |-> p.external_id,
                               brandName |-> "", categoryName |-> ""],
                           EmptyMap).status
                   = (IF s = "" THEN p.status ELSE MapStatus(s))

\* a product that the lookup found published has been updated by the batch
C20_Witness ==
    /\ pc = "workflow" /\ wf.st = "link"
    /\ \E e \in existingProducts :
          /\ e.status = "published"
          /\ e.id \in TouchedIds
          /\ \E p \in products : p.id = e.id /\ p.status = "draft"

\* the map holds an own entry for the category name of a record
HasCategoryEntry(name, categoryMap) == name # "" /\ name \in DOMAIN categoryMap

\* C21: a create or update record whose category name is absent or has no
\* entry in categoryMap leaves the product without category (create) or with the
\* categories it had (update); a record whose name has an entry gives the
\* product exactly the one category id of that entry.
C21_CategoriesFromMap ==
    [][/\ (pc = "workflow" /\ wf.st = "create" /\ wf'.st = "update") =>
             \A k \in DOMAIN wf'.createdProducts :
                wf'.createdProducts[k].category_ids =
                   IF HasCategoryEntry(wf.create[k].categoryName, wf.categoryMap)
                   THEN <<wf.categoryMap[wf.create[k].categoryName]>>
                   ELSE <<>>
       /\ (pc = "workflow" /\ wf.st = "update" /\ wf'.st \in {"link", "c_update"}) =>
             \A k \in DOMAIN wf.update : \A p \in products : \A q \in hist'.updated :
                (p.id = wf.update[k].id /\ q.id = p.id) =>
                   q.category_ids =
                      IF HasCategoryEntry(wf.update[k].categoryName, wf.categoryMap)
                      THEN <<wf.categoryMap[wf.update[k].categoryName]>>
                      ELSE p.category_ids]_vars

\* both activations of dailyProductSync have returned
BothFinished == other.live /\ Finished(pc) /\ Finished(other.pc)

\* C22: once two overlapping runs of dailyProductSync have both finished, the
\* store holds at most one product for each external identifier and at most one
\* brand row for each brand name.
C22_OverlapKeepsRowsUnique ==
    BothFinished =>
       /\ \A p, q \in products : p.external_id = q.external_id => p = q
       /\ \A b, c \in brands : b.name = c.name => b = c

\* the step names of lines 48, 91 and 193, in the order of lines 229-235
SyncStepOrder ==
    <<"sync-brands-step", "sync-products-step", "link-product-brands-step">>

\* remoteLink.create threw in this run
LinkCreateFailed ==
    Len(hist.steps) = 3 /\ wf.st \in {"c_link", "c_products", "c_brands", "failed"}

\* after the rollback of a failed link creation the store holds the rows it
\* held before the run, and the updated rows as the run wrote them
SyncRolledBack ==
    (LinkCreateFailed /\ wf.st = "failed") =>
       /\ {r.id : r \in brands \cup products} = hist.pre
       /\ hist.updated \subseteq products

\* C23: syncProductsWorkflow runs sync brands, sync products, link brands in
\* this order; when creating the links fails, the rollback deletes the brands
\* and products this run created, deletes no row that existed before the run
\* and keeps the updates applied to existing products; and the compensation of
\* the link step dismisses exactly the links the step computed.
C23_SyncRollback ==
    (pc = "workflow" /\ wf.st \in {"sync_brands", "sync_products", "link", "done",
                                   "c_link", "c_products", "c_brands", "failed"}) =>
       /\ hist.steps = SubSeq(SyncStepOrder, 1, Len(hist.steps))
       /\ SyncRolledBack
       /\ hist.linkCompensation.ran => hist.linkCompensation.dismiss = wf.links

====
